---- MODULE Spec2Model ----
(***************************************************************************)
(* Model of src/TheChernoOpenGL/src/application.cpp: main, CreateShader    *)
(* and CompileShader.                                                      *)
(*                                                                         *)
(* The program is one thread calling GLFW and OpenGL.  The model keeps the *)
(* position of main (pc), the variables of the three functions, the part   *)
(* of the GL / GLFW state the calls act on, the text written to std::cout, *)
(* and a log of the calls made.  What the driver and the user decide is    *)
(* drawn with \E: whether glfwInit and glfwCreateWindow succeed, the names *)
(* the driver hands out, each shader's compile status, the length of its   *)
(* information log, and the moment the user asks to close the window.      *)
(* Object creation (glGenBuffers, glCreateProgram, glCreateShader) is      *)
(* taken to succeed with a fresh non-zero name.  The program asks for no   *)
(* core profile, so a link fails only when an attached shader object did   *)
(* not compile, and glUseProgram installs a program that linked.           *)
(*                                                                         *)
(* Floats are written in tenths: 0.5f is 5, -0.5f is -5, 1.0f is 10.       *)
(***************************************************************************)
EXTENDS Integers, Sequences, FiniteSets

VARIABLES
    pc,              \* position of main
    ret,             \* << >> while main runs, then << its return value >>
    glfwState,       \* "uninit", "ready" or "terminated"
    window,          \* GLFWwindow* window (main): 0 is NULL, also before line 72
    contextCurrent,  \* a GL context is current on the thread
    buffer,          \* unsigned int buffer (main)
    boundBuffer,     \* GL_ARRAY_BUFFER binding
    bufferData,      \* floats held by the buffer object
    attrib,          \* vertex attribute 0: enabled, size, stride
    program,         \* unsigned int program (CreateShader)
    vs,              \* unsigned int vs (CreateShader)
    fs,              \* unsigned int fs (CreateShader)
    shader,          \* unsigned int shader (main)
    shaders,         \* shader objects the driver has created, in order
    programObj,      \* the driver's program object
    currentProgram,  \* program installed by glUseProgram
    calls,           \* log of the calls made outside the frame loop
    glErrors,        \* calls that raised a GL error
    out,             \* what was written to std::cout
    closeRequested,  \* the user has asked to close; the event is queued
    shouldClose,     \* the window's close flag, read by glfwWindowShouldClose
    frameOps,        \* calls made so far by the current loop iteration
    frames,          \* completed iterations (saturates at MaxCount)
    drawsAfterClose, \* draws made since closeRequested (saturates)
    phases           \* phases of main entered so far, in order

vars == << pc, ret, glfwState, window, contextCurrent, buffer, boundBuffer,
           bufferData, attrib, program, vs, fs, shader, shaders, programObj,
           currentProgram, calls, glErrors, out, closeRequested, shouldClose,
           frameOps, frames, drawsAfterClose, phases >>

----------------------------------------------------------------------------
(* Bounds of the model *)

\* names the driver may hand out for shader and program objects: 1..MaxName
MaxName == 3
\* names the driver may hand out for buffer objects: 1..MaxBufferName
MaxBufferName == 1
\* largest GL_INFO_LOG_LENGTH the driver reports
MaxLogLen == 2
\* most characters found before a NUL when an unwritten buffer is printed
MaxGarbage == 1
\* cap of the counters frames and drawsAfterClose
MaxCount == 2

(* Constants of the program and of the GL headers it uses *)

GL_FALSE == 0
GL_TRUE == 1
GL_VERTEX_SHADER == 35633
GL_FRAGMENT_SHADER == 35632
GL_ARRAY_BUFFER == 34962
GL_STATIC_DRAW == 35044
GL_FLOAT == 5126
GL_TRIANGLES == 4
GL_COLOR_BUFFER_BIT == 16384
SizeofFloat == 4
UploadFloats == 6
AttribIndex == 0
AttribSize == 2
AttribStrideFloats == 2
DrawFirst == 0
DrawCount == 3
WindowWidth == 640
WindowHeight == 480
ExitFailure == -1
ExitSuccess == 0

\* float positions[6] (line 85), in tenths
positions == << -5, -5, 0, 5, 5, -5 >>

\* glClearColor(0.2f, 0.2f, 0.3f, 1.0f), in tenths
ClearColor == << 2, 2, 3, 10 >>

----------------------------------------------------------------------------
(* Helpers *)

Call(name, args) == [call |-> name, args |-> args]

Inc(n) == IF n < MaxCount THEN n + 1 ELSE n

CallNames(log) == { log[i].call : i \in DOMAIN log }

CountCalls(log, name) == Cardinality({ i \in DOMAIN log : log[i].call = name })

IsPrefix(s, t) == Len(s) <= Len(t) /\ \A i \in DOMAIN s : s[i] = t[i]

----------------------------------------------------------------------------
(* Phases of main *)

PhaseOrder ==
    << "context_init", "buffer_upload", "shader_build", "frame_loop", "teardown" >>

PhaseOf(label) ==
    CASE label \in {"init", "window", "context"} -> "context_init"
      [] label \in {"buffer", "attrib"} -> "buffer_upload"
      [] label \in {"cs_program", "cs_vs", "cs_fs", "cs_attach", "cs_link",
                    "cs_delete", "use"} -> "shader_build"
      [] label \in {"loop", "clear", "draw", "swap", "poll"} -> "frame_loop"
      [] label \in {"delprog", "terminate"} -> "teardown"

\* control moves to `label`; a phase is recorded when it is entered
Goto(label) ==
    /\ pc' = label
    /\ phases' = IF label = "done" \/ PhaseOf(label) = phases[Len(phases)]
                 THEN phases
                 ELSE Append(phases, PhaseOf(label))

----------------------------------------------------------------------------
(* The driver: what the GL calls of the program do to the GL state *)

NoProgram ==
    [name |-> 0, exists |-> FALSE, attached |-> << >>, linked |-> FALSE,
     validated |-> FALSE, deleteCalls |-> 0]

\* a shader object is there until it is deleted and attached to nothing
ShaderExists(sh) == sh.deletes = 0 \/ sh.attached

ShaderNamesInUse(shs) == { shs[i].name : i \in { j \in DOMAIN shs : ShaderExists(shs[j]) } }

\* shader and program objects share one name space; 0 is never a name
FreeNames(shs, prog) ==
    { n \in 1..MaxName :
        /\ n \notin ShaderNamesInUse(shs)
        /\ ~(prog.exists /\ prog.name = n) }

glCreateShader(shs, type, id, result) ==
    Append(shs, [name |-> id, type |-> type, compiled |-> (result = GL_TRUE),
                 deletes |-> 0, attached |-> FALSE])

\* glDeleteShader(0) is silently ignored; a name that is no shader object is
\* an error and changes nothing
glDeleteShader(shs, name) ==
    [i \in DOMAIN shs |->
        IF shs[i].name = name /\ ShaderExists(shs[i])
        THEN [shs[i] EXCEPT !.deletes = @ + 1]
        ELSE shs[i]]

DeleteShaderFails(shs, name) ==
    name # 0 /\ name \notin ShaderNamesInUse(shs)

\* glAttachShader: a name that is no shader object (0 included) is an error
AttachFails(shs, name) == name \notin ShaderNamesInUse(shs)

glAttachShaderObjs(shs, name) ==
    [i \in DOMAIN shs |->
        IF shs[i].name = name /\ ShaderExists(shs[i])
        THEN [shs[i] EXCEPT !.attached = TRUE]
        ELSE shs[i]]

glAttachShaderProg(prog, shs, name) ==
    IF AttachFails(shs, name) THEN prog
    ELSE [prog EXCEPT !.attached = Append(@, name)]

\* a link fails when an attached shader object did not compile
LinkStatus(prog, shs) ==
    \A k \in DOMAIN prog.attached :
        \A i \in DOMAIN shs :
            (shs[i].name = prog.attached[k] /\ ShaderExists(shs[i])) => shs[i].compiled

\* glBufferData copies `size` bytes of `data` into the bound buffer object
glBufferData(data, size) == SubSeq(data, 1, size \div SizeofFloat)

\* vertices a buffer holds under the attribute layout
VerticesIn(data, layout) == (Len(data) * SizeofFloat) \div layout.stride

----------------------------------------------------------------------------
Init ==
    /\ pc = "init"
    /\ ret = << >>
    /\ glfwState = "uninit"
    /\ window = 0
    /\ contextCurrent = FALSE
    /\ buffer = 0
    /\ boundBuffer = 0
    /\ bufferData = << >>
    /\ attrib = [enabled |-> FALSE, size |-> 0, type |-> 0, stride |-> 0, offset |-> 0]
    /\ program = 0
    /\ vs = 0
    /\ fs = 0
    /\ shader = 0
    /\ shaders = << >>
    /\ programObj = NoProgram
    /\ currentProgram = 0
    /\ calls = << >>
    /\ glErrors = {}
    /\ out = << >>
    /\ closeRequested = FALSE
    /\ shouldClose = FALSE
    /\ frameOps = << >>
    /\ frames = 0
    /\ drawsAfterClose = 0
    /\ phases = << "context_init" >>

----------------------------------------------------------------------------
(* main, lines 61-101: window, context, vertex buffer *)

\* lines 66-67
GlfwInit ==
    /\ pc = "init"
    /\ \E ok \in BOOLEAN :
         /\ IF ok
            THEN /\ glfwState' = "ready"
                 /\ ret' = ret
                 /\ Goto("window")
            ELSE /\ glfwState' = glfwState
                 /\ ret' = << ExitFailure >>
                 /\ Goto("done")
         /\ calls' = Append(calls, Call("glfwInit", << IF ok THEN 1 ELSE 0 >>))
    /\ UNCHANGED << window, contextCurrent, buffer, boundBuffer, bufferData,
                    attrib, program, vs, fs, shader, shaders, programObj,
                    currentProgram, glErrors, out, closeRequested, shouldClose,
                    frameOps, frames, drawsAfterClose >>

\* lines 69-77 without the test of line 73: main goes on with a NULL window
CreateWindow_NoCheck ==
    /\ pc = "window"
    /\ \E ok \in BOOLEAN :
         /\ window' = IF ok THEN 1 ELSE 0
         /\ calls' = calls \o << Call("glewInit", << >>),
                                 Call("glfwCreateWindow",
                                      << WindowWidth, WindowHeight, IF ok THEN 1 ELSE 0 >>) >>
    /\ Goto("context")
    /\ UNCHANGED << ret, glfwState, contextCurrent, buffer, boundBuffer,
                    bufferData, attrib, program, vs, fs, shader, shaders,
                    programObj, currentProgram, glErrors, out, closeRequested,
                    shouldClose, frameOps, frames, drawsAfterClose >>

\* lines 69-77: glewInit without a context, then glfwCreateWindow
CreateWindow ==
    /\ pc = "window"
    /\ \E ok \in BOOLEAN :
         IF ok
         THEN /\ window' = 1
              /\ calls' = calls \o << Call("glewInit", << >>),
                                      Call("glfwCreateWindow", << WindowWidth, WindowHeight, 1 >>) >>
              /\ UNCHANGED << glfwState, ret >>
              /\ Goto("context")
         ELSE /\ window' = 0
              /\ calls' = calls \o << Call("glewInit", << >>),
                                      Call("glfwCreateWindow", << WindowWidth, WindowHeight, 0 >>),
                                      Call("glfwTerminate", << >>) >>
              /\ glfwState' = "terminated"
              /\ ret' = << ExitFailure >>
              /\ Goto("done")
    /\ UNCHANGED << contextCurrent, buffer, boundBuffer, bufferData, attrib,
                    program, vs, fs, shader, shaders, programObj, currentProgram,
                    glErrors, out, closeRequested, shouldClose, frameOps, frames,
                    drawsAfterClose >>

\* lines 80-83
MakeContext ==
    /\ pc = "context"
    /\ contextCurrent' = TRUE
    /\ calls' = calls \o << Call("glfwMakeContextCurrent", << window >>),
                            Call("glewInit", << >>),
                            Call("glGetString", << >>) >>
    /\ out' = Append(out, [text |-> "GL_VERSION", len |-> 1, written |-> TRUE])
    /\ Goto("buffer")
    /\ UNCHANGED << ret, glfwState, window, buffer, boundBuffer, bufferData,
                    attrib, program, vs, fs, shader, shaders, programObj,
                    currentProgram, glErrors, closeRequested, shouldClose,
                    frameOps, frames, drawsAfterClose >>

\* lines 85-97
BufferUpload ==
    /\ pc = "buffer"
    /\ \E name \in 1..MaxBufferName :
         /\ buffer' = name
         /\ boundBuffer' = name
         /\ calls' = calls \o
              << Call("glGenBuffers", << 1, name >>),
                 Call("glBindBuffer", << GL_ARRAY_BUFFER, name >>),
                 Call("glBufferData", << GL_ARRAY_BUFFER, UploadFloats * SizeofFloat,
                                         GL_STATIC_DRAW >>) >>
    /\ bufferData' = glBufferData(positions, UploadFloats * SizeofFloat)
    /\ Goto("attrib")
    /\ UNCHANGED << ret, glfwState, window, contextCurrent, attrib, program, vs,
                    fs, shader, shaders, programObj, currentProgram, glErrors,
                    out, closeRequested, shouldClose, frameOps, frames,
                    drawsAfterClose >>

\* lines 100-101
AttribSetup ==
    /\ pc = "attrib"
    /\ attrib' = [enabled |-> TRUE, size |-> AttribSize, type |-> GL_FLOAT,
                  stride |-> AttribStrideFloats * SizeofFloat, offset |-> 0]
    /\ calls' = calls \o
         << Call("glEnableVertexAttribArray", << AttribIndex >>),
            Call("glVertexAttribPointer",
                 << AttribIndex, AttribSize, GL_FLOAT, GL_FALSE,
                    AttribStrideFloats * SizeofFloat, 0 >>) >>
    /\ Goto("cs_program")
    /\ UNCHANGED << ret, glfwState, window, contextCurrent, buffer, boundBuffer,
                    bufferData, program, vs, fs, shader, shaders, programObj,
                    currentProgram, glErrors, out, closeRequested, shouldClose,
                    frameOps, frames, drawsAfterClose >>

----------------------------------------------------------------------------
(* CompileShader, lines 6-32 *)

TypeName(type) == IF type = GL_VERTEX_SHADER THEN "vertex" ELSE "fragment"

\* CompileShader without line 28: the deleted shader's name is returned
CompileShaderReturn_NoSentinel(id, result) == id

\* lines 28 and 31: the value CompileShader returns
CompileShaderReturn(id, result) == IF result = GL_FALSE THEN 0 ELSE id

\* lines 22-25: characters of `message` printed by std::cout << message.
\* glGetShaderInfoLog writes length - 1 characters and a NUL into the
\* length bytes of alloca(length).  With length = 0 it writes nothing and
\* the operator<< reads bytes the program never wrote: whatever lies on the
\* thread's stack from the address alloca(0) gave up to the first zero byte,
\* `garbage` characters, possibly none.
PrintedLen(length, garbage) == IF length > 0 THEN length - 1 ELSE garbage

\* lines 8-16: calls made for every shader
CompileCalls(type, id) ==
    << Call("glCreateShader", << type, id >>),
       Call("glShaderSource", << id >>),
       Call("glCompileShader", << id >>),
       Call("glGetShaderiv", << id >>) >>

\* lines 21-26: calls made when result == GL_FALSE
FailureCalls(id, length) ==
    << Call("glGetShaderiv", << id >>),
       Call("glGetShaderInfoLog", << id, length >>),
       Call("glDeleteShader", << id >>) >>

\* lines 24-25: what the failure branch prints
FailureOutput(type, length, garbage) ==
    << [text |-> TypeName(type), len |-> 1, written |-> TRUE],
       [text |-> "message", len |-> PrintedLen(length, garbage),
        written |-> (length > 0)] >>

\* lines 18-29: the shader objects after the failure branch
FailureShaders(shs, id) == glDeleteShader(shs, id)

\* one call of CompileShader(type, source), made at `at`, returning to `nxt`
CompileShader(type, at, nxt) ==
    /\ pc = at
    /\ \E id \in FreeNames(shaders, programObj),
          result \in {GL_FALSE, GL_TRUE},
          length \in 0..MaxLogLen,
          garbage \in 0..MaxGarbage :
         LET created == glCreateShader(shaders, type, id, result)
             r == CompileShaderReturn(id, result)
         IN  /\ IF result = GL_FALSE
                THEN /\ shaders' = FailureShaders(created, id)
                     /\ calls' = calls \o CompileCalls(type, id) \o FailureCalls(id, length)
                     /\ out' = out \o FailureOutput(type, length, garbage)
                ELSE /\ shaders' = created
                     /\ calls' = calls \o CompileCalls(type, id)
                     /\ out' = out
             /\ IF type = GL_VERTEX_SHADER
                THEN vs' = r /\ fs' = fs
                ELSE fs' = r /\ vs' = vs
    /\ Goto(nxt)
    /\ UNCHANGED << ret, glfwState, window, contextCurrent, buffer, boundBuffer,
                    bufferData, attrib, program, shader, programObj,
                    currentProgram, glErrors, closeRequested, shouldClose,
                    frameOps, frames, drawsAfterClose >>

----------------------------------------------------------------------------
(* CreateShader, lines 38-59 *)

\* line 42
CreateProgram ==
    /\ pc = "cs_program"
    /\ \E name \in FreeNames(shaders, programObj) :
         /\ program' = name
         /\ programObj' = [NoProgram EXCEPT !.name = name, !.exists = TRUE]
         /\ calls' = Append(calls, Call("glCreateProgram", << name >>))
    /\ Goto("cs_vs")
    /\ UNCHANGED << ret, glfwState, window, contextCurrent, buffer, boundBuffer,
                    bufferData, attrib, vs, fs, shader, shaders, currentProgram,
                    glErrors, out, closeRequested, shouldClose, frameOps, frames,
                    drawsAfterClose >>

\* line 43
CompileVertex == CompileShader(GL_VERTEX_SHADER, "cs_vs", "cs_fs")

\* line 44
CompileFragment == CompileShader(GL_FRAGMENT_SHADER, "cs_fs", "cs_attach")

\* lines 49-50
AttachShaders ==
    /\ pc = "cs_attach"
    /\ programObj' = glAttachShaderProg(glAttachShaderProg(programObj, shaders, vs),
                                        shaders, fs)
    /\ shaders' = glAttachShaderObjs(glAttachShaderObjs(shaders, vs), fs)
    /\ glErrors' = IF AttachFails(shaders, vs) \/ AttachFails(shaders, fs)
                   THEN glErrors \cup {"glAttachShader"}
                   ELSE glErrors
    /\ calls' = calls \o << Call("glAttachShader", << program, vs >>),
                            Call("glAttachShader", << program, fs >>) >>
    /\ Goto("cs_link")
    /\ UNCHANGED << ret, glfwState, window, contextCurrent, buffer, boundBuffer,
                    bufferData, attrib, program, vs, fs, shader, currentProgram,
                    out, closeRequested, shouldClose, frameOps, frames,
                    drawsAfterClose >>

\* lines 52-53
LinkValidate ==
    /\ pc = "cs_link"
    /\ programObj' = [programObj EXCEPT !.linked = LinkStatus(programObj, shaders),
                                        !.validated = TRUE]
    /\ calls' = calls \o << Call("glLinkProgram", << program >>),
                            Call("glValidateProgram", << program >>) >>
    /\ Goto("cs_delete")
    /\ UNCHANGED << ret, glfwState, window, contextCurrent, buffer, boundBuffer,
                    bufferData, attrib, program, vs, fs, shader, shaders,
                    currentProgram, glErrors, out, closeRequested, shouldClose,
                    frameOps, frames, drawsAfterClose >>

\* CreateShader giving up when a compile failed
CreateShaderReturn_ZeroOnFailure(prog, v, f) == IF v = 0 \/ f = 0 THEN 0 ELSE prog

\* CreateShader returning a shader's handle in place of the program's
CreateShaderReturn_VertexHandle(prog, v, f) == v

\* line 58: the value CreateShader returns
CreateShaderReturn(prog, v, f) == prog

\* lines 55-56: the shader names CreateShader deletes, in order
DeletedAtEnd(v, f) == << v, f >>

\* lines 55-58, and the assignment of line 126
DeleteShadersReturn ==
    /\ pc = "cs_delete"
    /\ LET d == DeletedAtEnd(vs, fs)
           after1 == glDeleteShader(shaders, d[1])
       IN  /\ shaders' = glDeleteShader(after1, d[2])
           /\ glErrors' = IF DeleteShaderFails(shaders, d[1]) \/ DeleteShaderFails(after1, d[2])
                          THEN glErrors \cup {"glDeleteShader"}
                          ELSE glErrors
           /\ calls' = calls \o << Call("glDeleteShader", << d[1] >>),
                                   Call("glDeleteShader", << d[2] >>),
                                   Call("CreateShader returns", << CreateShaderReturn(program, vs, fs) >>) >>
    /\ shader' = CreateShaderReturn(program, vs, fs)
    /\ Goto("use")
    /\ UNCHANGED << ret, glfwState, window, contextCurrent, buffer, boundBuffer,
                    bufferData, attrib, program, vs, fs, programObj,
                    currentProgram, out, closeRequested, shouldClose, frameOps,
                    frames, drawsAfterClose >>

----------------------------------------------------------------------------
(* main, lines 126-148: bind, frame loop, teardown *)

\* glUseProgram installs a program object that linked; 0 installs none;
\* anything else is an error and leaves the current program as it was
UseFails(prog, name) == name # 0 /\ ~(prog.exists /\ prog.name = name /\ prog.linked)

\* main binding the vertex shader's handle in place of the program's
ProgramToUse_VertexShader == vs

\* line 127: the program main binds
ProgramToUse == shader

\* line 127
UseProgram ==
    /\ pc = "use"
    /\ currentProgram' = IF UseFails(programObj, ProgramToUse) THEN currentProgram
                         ELSE ProgramToUse
    /\ glErrors' = IF UseFails(programObj, ProgramToUse) THEN glErrors \cup {"glUseProgram"}
                   ELSE glErrors
    /\ calls' = Append(calls, Call("glUseProgram", << ProgramToUse >>))
    /\ Goto("loop")
    /\ UNCHANGED << ret, glfwState, window, contextCurrent, buffer, boundBuffer,
                    bufferData, attrib, program, vs, fs, shader, shaders,
                    programObj, out, closeRequested, shouldClose, frameOps,
                    frames, drawsAfterClose >>

\* a loop that never looks at the close flag
ShouldContinue_Always == TRUE

\* line 130: the condition of the while
ShouldContinue == ~shouldClose

\* line 130: while (!glfwWindowShouldClose(window))
LoopTest ==
    /\ pc = "loop"
    /\ IF ShouldContinue
       THEN Goto("clear") /\ frameOps' = << >>
       ELSE Goto("delprog") /\ frameOps' = frameOps
    /\ UNCHANGED << ret, glfwState, window, contextCurrent, buffer, boundBuffer,
                    bufferData, attrib, program, vs, fs, shader, shaders,
                    programObj, currentProgram, calls, glErrors, out,
                    closeRequested, shouldClose, frames, drawsAfterClose >>

\* lines 133-134
ClearOps ==
    << Call("glClearColor", ClearColor), Call("glClear", << GL_COLOR_BUFFER_BIT >>) >>

Clear ==
    /\ pc = "clear"
    /\ frameOps' = frameOps \o ClearOps
    /\ Goto("draw")
    /\ UNCHANGED << ret, glfwState, window, contextCurrent, buffer, boundBuffer,
                    bufferData, attrib, program, vs, fs, shader, shaders,
                    programObj, currentProgram, calls, glErrors, out,
                    closeRequested, shouldClose, frames, drawsAfterClose >>

\* the draw issued twice in one iteration
DrawOps_Twice ==
    << Call("glDrawArrays", << GL_TRIANGLES, DrawFirst, DrawCount >>),
       Call("glDrawArrays", << GL_TRIANGLES, DrawFirst, DrawCount >>) >>

\* the draw asking for as many vertices as the array has floats
DrawOps_SixVertices == << Call("glDrawArrays", << GL_TRIANGLES, DrawFirst, UploadFloats >>) >>

\* line 136: glDrawArrays(GL_TRIANGLES, 0, 3)
DrawOps == << Call("glDrawArrays", << GL_TRIANGLES, DrawFirst, DrawCount >>) >>

Draw ==
    /\ pc = "draw"
    /\ frameOps' = frameOps \o DrawOps
    /\ drawsAfterClose' = IF closeRequested THEN Inc(drawsAfterClose) ELSE drawsAfterClose
    /\ Goto("swap")
    /\ UNCHANGED << ret, glfwState, window, contextCurrent, buffer, boundBuffer,
                    bufferData, attrib, program, vs, fs, shader, shaders,
                    programObj, currentProgram, calls, glErrors, out,
                    closeRequested, shouldClose, frames >>

\* line 139
SwapBuffers ==
    /\ pc = "swap"
    /\ frameOps' = Append(frameOps, Call("glfwSwapBuffers", << window >>))
    /\ Goto("poll")
    /\ UNCHANGED << ret, glfwState, window, contextCurrent, buffer, boundBuffer,
                    bufferData, attrib, program, vs, fs, shader, shaders,
                    programObj, currentProgram, calls, glErrors, out,
                    closeRequested, shouldClose, frames, drawsAfterClose >>

\* an iteration that goes back to the buffer upload
AfterPoll_Reupload == "buffer"

\* line 141: where control goes after glfwPollEvents
AfterPoll == "loop"

\* line 141: glfwPollEvents handles the queued events; a close request sets
\* the window's close flag
PollEvents ==
    /\ pc = "poll"
    /\ frameOps' = Append(frameOps, Call("glfwPollEvents", << >>))
    /\ shouldClose' = (shouldClose \/ closeRequested)
    /\ frames' = Inc(frames)
    /\ Goto(AfterPoll)
    /\ UNCHANGED << ret, glfwState, window, contextCurrent, buffer, boundBuffer,
                    bufferData, attrib, program, vs, fs, shader, shaders,
                    programObj, currentProgram, calls, glErrors, out,
                    closeRequested, drawsAfterClose >>

\* line 144
DeleteProgram ==
    /\ pc = "delprog"
    /\ programObj' = IF programObj.exists /\ programObj.name = shader
                     THEN [programObj EXCEPT !.deleteCalls = @ + 1]
                     ELSE programObj
    /\ calls' = Append(calls, Call("glDeleteProgram", << shader >>))
    /\ Goto("terminate")
    /\ UNCHANGED << ret, glfwState, window, contextCurrent, buffer, boundBuffer,
                    bufferData, attrib, program, vs, fs, shader, shaders,
                    currentProgram, glErrors, out, closeRequested, shouldClose,
                    frameOps, frames, drawsAfterClose >>

\* lines 146-147: glfwTerminate destroys the window and its context; main's
\* pointer `window` is not assigned and keeps the value of line 72
Terminate ==
    /\ pc = "terminate"
    /\ glfwState' = "terminated"
    /\ contextCurrent' = FALSE
    /\ ret' = << ExitSuccess >>
    /\ calls' = Append(calls, Call("glfwTerminate", << >>))
    /\ Goto("done")
    /\ UNCHANGED << window, buffer, boundBuffer, bufferData, attrib, program,
                    vs, fs, shader, shaders, programObj, currentProgram,
                    glErrors, out, closeRequested, shouldClose, frameOps,
                    frames, drawsAfterClose >>

----------------------------------------------------------------------------
(* The user *)

\* the user asks to close the window; the request waits in the event queue
\* until glfwPollEvents handles it
UserClose ==
    /\ window # 0
    /\ glfwState = "ready"
    /\ ~closeRequested
    /\ closeRequested' = TRUE
    /\ UNCHANGED << pc, ret, glfwState, window, contextCurrent, buffer,
                    boundBuffer, bufferData, attrib, program, vs, fs, shader,
                    shaders, programObj, currentProgram, calls, glErrors, out,
                    shouldClose, frameOps, frames, drawsAfterClose, phases >>

----------------------------------------------------------------------------
\* a step of main
MainStep ==
    \/ GlfwInit \/ CreateWindow \/ MakeContext \/ BufferUpload \/ AttribSetup
    \/ CreateProgram \/ CompileVertex \/ CompileFragment \/ AttachShaders
    \/ LinkValidate \/ DeleteShadersReturn \/ UseProgram
    \/ LoopTest \/ Clear \/ Draw \/ SwapBuffers \/ PollEvents
    \/ DeleteProgram \/ Terminate

Next ==
    \/ GlfwInit
    \/ CreateWindow
    \/ MakeContext
    \/ BufferUpload
    \/ AttribSetup
    \/ CreateProgram
    \/ CompileVertex
    \/ CompileFragment
    \/ AttachShaders
    \/ LinkValidate
    \/ DeleteShadersReturn
    \/ UseProgram
    \/ LoopTest
    \/ Clear
    \/ Draw
    \/ SwapBuffers
    \/ PollEvents
    \/ DeleteProgram
    \/ Terminate
    \/ UserClose

Spec == Init /\ [][Next]_vars

\* main is the only thread and none of its calls blocks for ever: it keeps
\* taking steps until it returns
FairSpec == Init /\ [][Next]_vars /\ WF_vars(MainStep)

----------------------------------------------------------------------------
(* Properties *)

Range(q) == { q[i] : i \in DOMAIN q }

OpNames(ops) == [i \in DOMAIN ops |-> ops[i].call]

\* the arguments of the calls named `name`, in the order they were made
ArgsOf(log, name) ==
    LET sel == SelectSeq(log, LAMBDA c : c.call = name)
    IN  [i \in DOMAIN sel |-> sel[i].args]

DrawsIn(ops) == CountCalls(ops, "glDrawArrays")

\* C1, as stated: once a close request exists the loop exits and main ends,
\* and from the moment the request is issued no draw call is made.
C1_NoDrawOnceCloseIssued ==
    /\ closeRequested ~> (pc = "done")
    /\ [](drawsAfterClose = 0)

\* C1, amended: once a close request exists the loop exits and main returns 0;
\* at most one draw call is made after the request is issued (the one of the
\* iteration the request arrives in), and none once glfwPollEvents has set the
\* close flag that the loop condition reads.
C1_ExitsAfterClose ==
    /\ closeRequested ~> (pc = "done" /\ ret = << 0 >>)
    /\ [](drawsAfterClose <= 1)
    /\ [][shouldClose => DrawsIn(frameOps') <= DrawsIn(frameOps)]_vars

\* a run that closed after two iterations, with a draw made after the request
C1_Witness ==
    /\ pc = "done"
    /\ ret = << 0 >>
    /\ closeRequested
    /\ frames >= 2
    /\ drawsAfterClose = 1

FrameNames ==
    << "glClearColor", "glClear", "glDrawArrays", "glfwSwapBuffers", "glfwPollEvents" >>

\* calls an iteration has made when control is at `label`
StepsDone(label) ==
    CASE label = "clear" -> 0
      [] label = "draw" -> 2
      [] label = "swap" -> 3
      [] label = "poll" -> 4

IndexedDrawCalls ==
    { "glDrawElements", "glDrawRangeElements", "glDrawElementsBaseVertex",
      "glDrawElementsInstanced" }

\* C2, as stated: a completed iteration has cleared to the fixed colour, made
\* one indexed draw of 3 vertices as a triangle list, swapped and polled, in
\* this order and once each.
C2_IndexedDraw ==
    (pc = "loop" /\ frames > 0) =>
        /\ Len(frameOps) = 5
        /\ frameOps[1] = Call("glClearColor", << 2, 2, 3, 10 >>)
        /\ frameOps[2] = Call("glClear", << GL_COLOR_BUFFER_BIT >>)
        /\ frameOps[3].call \in IndexedDrawCalls
        /\ frameOps[3].args[1] = GL_TRIANGLES
        /\ frameOps[4].call = "glfwSwapBuffers"
        /\ frameOps[5].call = "glfwPollEvents"

\* C2, amended: every iteration clears the colour buffer to (0.2, 0.2, 0.3,
\* 1.0), makes one array draw (glDrawArrays, no index buffer) of 3 vertices
\* from vertex 0 as a triangle list, swaps and polls, in this order and once
\* each; no iteration draws twice or skips a step.
C2_FrameSteps ==
    /\ pc \in {"clear", "draw", "swap", "poll"} =>
           OpNames(frameOps) = SubSeq(FrameNames, 1, StepsDone(pc))
    /\ (pc = "loop" /\ frames > 0) =>
           /\ OpNames(frameOps) = FrameNames
           /\ frameOps[1].args = << 2, 2, 3, 10 >>
           /\ frameOps[2].args = << GL_COLOR_BUFFER_BIT >>
           /\ frameOps[3].args = << GL_TRIANGLES, 0, 3 >>
           /\ frameOps[4].args = << 1 >>

\* the loop test after the second complete iteration
C2_Witness ==
    /\ pc = "loop"
    /\ frames >= 2
    /\ Len(frameOps) = 5
    /\ frameOps[3].call = "glDrawArrays"

\* the handle CompileShader handed back for the i-th shader object
HandleReturned(i) == IF i = 1 THEN vs ELSE fs

\* C3: a shader whose compile status is false has its log fetched with the
\* length the driver reported, the log printed, the object deleted and 0
\* returned; the diagnostic printed is one the driver wrote and is not empty.
C3_FailureReported ==
    /\ \A i \in DOMAIN shaders :
         ~shaders[i].compiled =>
             /\ shaders[i].deletes = 1
             /\ HandleReturned(i) = 0
             /\ \E k \in DOMAIN calls :
                  /\ calls[k].call = "glGetShaderInfoLog"
                  /\ calls[k].args[1] = shaders[i].name
             /\ \E j \in DOMAIN out :
                  /\ out[j].text = TypeName(shaders[i].type)
                  /\ out[j + 1].text = "message"
    /\ \A j \in DOMAIN out :
         out[j].text = "message" => (out[j].written /\ out[j].len > 0)

\* CreateShader has returned to main
Returned == "CreateShader returns" \in CallNames(calls)

\* the handle CompileShader is to hand back for the i-th shader object
HandleOf(i) == IF shaders[i].compiled THEN shaders[i].name ELSE 0

\* the name glCreateProgram handed out
CreatedProgram == ArgsOf(calls, "glCreateProgram")[1][1]

\* the last seven calls of CreateShader
BuildTail ==
    LET r == CHOOSE i \in DOMAIN calls : calls[i].call = "CreateShader returns"
    IN  SubSeq(calls, r - 6, r)

\* C4: whatever the two compiles report, CreateShader compiles each shader
\* once, attaches both handles (0 for a failed one), links, validates and
\* returns the program handle; main binds that handle and enters the frame
\* loop, and does not return before it has.
C4_BuildNotStopped ==
    /\ Returned =>
         /\ CountCalls(calls, "glCreateProgram") = 1
         /\ CountCalls(calls, "glCompileShader") = 2
         /\ Len(shaders) = 2
         /\ OpNames(BuildTail) =
              << "glAttachShader", "glAttachShader", "glLinkProgram",
                 "glValidateProgram", "glDeleteShader", "glDeleteShader",
                 "CreateShader returns" >>
         /\ ArgsOf(calls, "glAttachShader") =
              << << CreatedProgram, HandleOf(1) >>, << CreatedProgram, HandleOf(2) >> >>
         /\ ArgsOf(calls, "glLinkProgram") = << << CreatedProgram >> >>
         /\ ArgsOf(calls, "glValidateProgram") = << << CreatedProgram >> >>
         /\ ArgsOf(calls, "CreateShader returns") = << << CreatedProgram >> >>
         /\ shader = CreatedProgram
         /\ pc # "use" =>
              /\ ArgsOf(calls, "glUseProgram") = << << CreatedProgram >> >>
              /\ "frame_loop" \in Range(phases)
    /\ ("glCreateProgram" \in CallNames(calls) /\ ret # << >>) =>
         /\ Returned
         /\ "frame_loop" \in Range(phases)
         /\ ret = << 0 >>

\* the frame loop draws after both compiles failed
C4_Witness ==
    /\ pc = "draw"
    /\ Len(shaders) = 2
    /\ ~shaders[1].compiled
    /\ ~shaders[2].compiled
    /\ vs = 0
    /\ fs = 0
    /\ shader # 0

\* C5: when both shaders compile, CreateShader attaches the two compiled
\* shaders to the program it created, links it, validates it, deletes the two
\* shaders, in this order, and returns the handle glCreateProgram gave it,
\* which is not 0.
C5_SuccessfulBuild ==
    (Returned /\ shaders[1].compiled /\ shaders[2].compiled) =>
        /\ BuildTail =
             << Call("glAttachShader", << CreatedProgram, shaders[1].name >>),
                Call("glAttachShader", << CreatedProgram, shaders[2].name >>),
                Call("glLinkProgram", << CreatedProgram >>),
                Call("glValidateProgram", << CreatedProgram >>),
                Call("glDeleteShader", << shaders[1].name >>),
                Call("glDeleteShader", << shaders[2].name >>),
                Call("CreateShader returns", << CreatedProgram >>) >>
        /\ shaders[1].type = GL_VERTEX_SHADER
        /\ shaders[2].type = GL_FRAGMENT_SHADER
        /\ programObj.name = CreatedProgram
        /\ programObj.attached = << shaders[1].name, shaders[2].name >>
        /\ programObj.linked
        /\ programObj.validated
        /\ shaders[1].deletes = 1
        /\ shaders[2].deletes = 1
        /\ glErrors = {}
        /\ shader = CreatedProgram
        /\ shader # 0

\* CreateShader has just returned a program built from two compiled shaders
C5_Witness ==
    /\ pc = "use"
    /\ Len(shaders) = 2
    /\ shaders[1].compiled
    /\ shaders[2].compiled
    /\ shader = program
    /\ Len(programObj.attached) = 2

WindowFailed ==
    \E i \in DOMAIN calls : calls[i].call = "glfwCreateWindow" /\ calls[i].args[3] = 0

InitFailed ==
    \E i \in DOMAIN calls : calls[i].call = "glfwInit" /\ calls[i].args[1] = 0

\* C6: when glfwCreateWindow fails main calls glfwTerminate and returns -1,
\* and when glfwInit fails main returns -1; in both cases no buffer is
\* created or filled, no shader is built, no program is bound, and nothing
\* is drawn, presented or polled.
C6_FailedStart ==
    /\ WindowFailed =>
         /\ pc = "done"
         /\ ret = << -1 >>
         /\ glfwState = "terminated"
         /\ OpNames(calls) = << "glfwInit", "glewInit", "glfwCreateWindow", "glfwTerminate" >>
    /\ InitFailed =>
         /\ pc = "done"
         /\ ret = << -1 >>
         /\ OpNames(calls) = << "glfwInit" >>
    /\ (WindowFailed \/ InitFailed \/ ret = << -1 >>) =>
         /\ buffer = 0
         /\ bufferData = << >>
         /\ shaders = << >>
         /\ ~programObj.exists
         /\ currentProgram = 0
         /\ frameOps = << >>
         /\ frames = 0
    /\ ret = << -1 >> => (WindowFailed \/ InitFailed)

\* main has returned after glfwCreateWindow failed
C6_Witness ==
    /\ WindowFailed
    /\ pc = "done"
    /\ glfwState = "terminated"

\* C7: glBufferData is called at most once, before the loop; from then on
\* the buffer holds the 6 floats of the 3 two-component points and nothing
\* else; every draw asks for 3 vertices, the number the bound buffer holds
\* under the attribute layout (6 floats, 2 per vertex).
C7_VertexBuffer ==
    /\ CountCalls(calls, "glBufferData") <= 1
    /\ bufferData = IF "glBufferData" \in CallNames(calls)
                    THEN << -5, -5, 0, 5, 5, -5 >>
                    ELSE << >>
    /\ "frame_loop" \in Range(phases) => "glBufferData" \in CallNames(calls)
    /\ \A i \in DOMAIN frameOps :
         frameOps[i].call = "glDrawArrays" =>
             /\ Len(bufferData) = 6
             /\ boundBuffer = buffer
             /\ buffer # 0
             /\ attrib.enabled
             /\ attrib.size = 2
             /\ frameOps[i].args[3] = 3
             /\ frameOps[i].args[3] = Len(bufferData) \div attrib.size
             /\ frameOps[i].args[3] = VerticesIn(bufferData, attrib)

\* the draw of the second iteration has been made
C7_Witness ==
    /\ pc = "swap"
    /\ frames >= 1
    /\ DrawsIn(frameOps) = 1
    /\ Len(bufferData) = 6

UploadCalls ==
    { "glGenBuffers", "glBindBuffer", "glBufferData", "glEnableVertexAttribArray",
      "glVertexAttribPointer" }

BuildCalls ==
    { "glCreateProgram", "glCreateShader", "glShaderSource", "glCompileShader",
      "glGetShaderiv", "glGetShaderInfoLog", "glAttachShader", "glLinkProgram",
      "glValidateProgram", "glDeleteShader", "CreateShader returns", "glUseProgram" }

ContextCalls ==
    { "glfwInit", "glewInit", "glfwCreateWindow", "glfwMakeContextCurrent", "glGetString" }

TeardownCalls == { "glDeleteProgram", "glfwTerminate" }

\* rank of a call's phase in PhaseOrder; the loop's calls are kept in frameOps
CallRank(c) ==
    CASE c.call \in ContextCalls -> 1
      [] c.call \in UploadCalls -> 2
      [] c.call \in BuildCalls -> 3
      [] c.call \in TeardownCalls -> 5

\* the upload and build calls of a log, in order
SetupCalls(log) == SelectSeq(log, LAMBDA c : c.call \in UploadCalls \cup BuildCalls)

\* C8: when the window is created, main goes through context init, buffer
\* upload, shader build, frame loop and teardown in this order, entering each
\* once; the calls it makes are in this order too; no upload or build call is
\* made once the loop has started, and no loop step once teardown has begun.
C8_LinearPhases ==
    /\ [](IsPrefix(phases, PhaseOrder))
    /\ []((pc = "done" /\ ~WindowFailed /\ ~InitFailed) => phases = PhaseOrder)
    /\ [](~WindowFailed =>
            \A i, j \in DOMAIN calls : i < j => CallRank(calls[i]) <= CallRank(calls[j]))
    /\ []((frameOps # << >> \/ frames > 0) => "frame_loop" \in Range(phases))
    /\ [][ "frame_loop" \in Range(phases) => SetupCalls(calls') = SetupCalls(calls) ]_vars
    /\ [][ "teardown" \in Range(phases) => (frameOps' = frameOps /\ frames' = frames) ]_vars

\* main has returned after running the loop
C8_Witness ==
    /\ pc = "done"
    /\ ret = << 0 >>
    /\ frames >= 2
    /\ phases = PhaseOrder

\* C9: glCreateProgram and glDeleteProgram are each called once: the delete
\* after the loop has exited and before glfwTerminate; at every draw the
\* program CreateShader returned is the current program and is not deleted.
C9_ProgramLifetime ==
    /\ CountCalls(calls, "glCreateProgram") <= 1
    /\ CountCalls(calls, "glDeleteProgram") <= 1
    /\ programObj.deleteCalls <= 1
    /\ "glDeleteProgram" \in CallNames(calls) =>
         /\ pc \in {"terminate", "done"}
         /\ shouldClose
         /\ Returned
         /\ ArgsOf(calls, "glDeleteProgram") = ArgsOf(calls, "CreateShader returns")
         /\ programObj.deleteCalls = 1
    /\ (pc = "done" /\ ret = << 0 >>) =>
         /\ CountCalls(calls, "glCreateProgram") = 1
         /\ OpNames(SubSeq(calls, Len(calls) - 1, Len(calls))) =
              << "glDeleteProgram", "glfwTerminate" >>
    /\ (pc \in {"clear", "draw", "swap", "poll"} \/ DrawsIn(frameOps) > 0) =>
         /\ Returned
         /\ shader = ArgsOf(calls, "CreateShader returns")[1][1]
         /\ pc \in {"clear", "draw", "swap", "poll", "loop"} =>
              /\ currentProgram = shader
              /\ programObj.exists
              /\ programObj.name = shader
              /\ programObj.deleteCalls = 0

\* the program has been deleted after a loop that drew
C9_Witness ==
    /\ pc = "terminate"
    /\ frames >= 1
    /\ programObj.deleteCalls = 1
    /\ currentProgram = shader

\* C10: when CreateShader returns, each of the two shader objects has been
\* deleted once and no glDeleteShader has failed: a shader that failed to
\* compile was deleted in CompileShader, which returned 0, and CreateShader's
\* glDeleteShader is then called on 0; a shader that compiled is not deleted
\* before CreateShader deletes it.
C10_ShadersReleasedOnce ==
    /\ \A i \in DOMAIN shaders : shaders[i].deletes <= 1
    /\ "glDeleteShader" \notin glErrors
    /\ \A i \in DOMAIN shaders :
         /\ ~shaders[i].compiled => (shaders[i].deletes = 1 /\ HandleReturned(i) = 0)
         /\ (shaders[i].compiled /\ ~Returned) =>
                (shaders[i].deletes = 0 /\ HandleReturned(i) = shaders[i].name)
    /\ Returned =>
         /\ Len(shaders) = 2
         /\ \A i \in DOMAIN shaders : shaders[i].deletes = 1
         /\ BuildTail[5] = Call("glDeleteShader", << HandleOf(1) >>)
         /\ BuildTail[6] = Call("glDeleteShader", << HandleOf(2) >>)
         /\ CountCalls(calls, "glDeleteShader") =
              2 + Cardinality({ i \in DOMAIN shaders : ~shaders[i].compiled })

\* CreateShader has returned after one compile failed and one succeeded
C10_Witness ==
    /\ pc = "use"
    /\ Len(shaders) = 2
    /\ ~shaders[1].compiled
    /\ shaders[2].compiled
    /\ shaders[1].name = shaders[2].name
    /\ vs = 0
    /\ fs # 0

====
